---- MODULE Spec2Model ----
(***************************************************************************)
(* Model of jigo's template front end: the scanner (lexer.run, lexText,    *)
(* next/backup/peek, emit, errorf), the AST node model (String, Copy,      *)
(* newLiteral) and the variable-resolution context (Context, contextStack).*)
(***************************************************************************)
EXTENDS Integers, Sequences, FiniteSets, TLC

(***************************************************************************)
(* Bounds                                                                  *)
(***************************************************************************)
MaxLen == 4

\* Bytes of the input.  "a" and "{" are ASCII bytes, "L" is the lead byte
\* of a two-byte UTF-8 sequence and "C" a continuation byte.
Bytes == {"a", "{", "L", "C"}

\* The delimiter configurations: unset (the zero value of the string
\* field), one ASCII byte, two ASCII bytes, one two-byte character.
LeftDelims == {<<>>, <<"{">>, <<"{", "{">>, <<"L", "C">>}

Strings(n) == UNION {[1..k -> Bytes] : k \in 0..n}

Inputs == Strings(MaxLen)

VARIABLES
    input,      \* lexer.input: the string being scanned (sequence of bytes)
    leftDelim,  \* lexer.leftDelim
    state,      \* lexer.state: the next lexing function, or "nil"
    pos,        \* lexer.pos
    start,      \* lexer.start
    width,      \* lexer.width
    lastPos,    \* lexer.lastPos
    items,      \* lexer.items: the item in flight on the channel
    received,   \* the items nextItem has returned to the client, in order
    pc,         \* position of the goroutine executing lexer.run
    hist,       \* the last cursor call (next, backup, peek) and where it began
    panicked,   \* a runtime panic (slice bounds out of range) has occurred
    heap,       \* the allocated nodes; a Node value is an index, 0 is nil
    orig,       \* the node Copy was called on, 0 before the call
    copy,       \* the node Copy returned
    rendered,   \* orig.String() and copy.String() when Copy returned
    edited,     \* which tree has been edited since: "none", "orig", "copy"
    litArgs,    \* the arguments of a newLiteral call
    litRes,     \* what the call did: nothing yet, a node, or a panic
    ctx,        \* the contextStack: the Contexts pushed, first pushed first
    hosts,      \* the host value each pushed Context was built from
    looked,     \* the last lookup call and what it returned
    err         \* the error of the last NewContext call, "" if none

lexVars == <<input, leftDelim, state, pos, start, width, lastPos, items,
             received, pc>>

apiVars == <<hist, panicked>>

astVars == <<heap, orig, copy, rendered, edited>>

litVars == <<litArgs, litRes>>

ctxVars == <<ctx, hosts, looked, err>>

\* What the scanner leaves alone.
nonLexVars == <<apiVars, astVars, litVars, ctxVars>>

\* What the cursor primitives leave alone.
nonCursorVars == <<astVars, litVars, ctxVars>>

vars == <<lexVars, apiVars, astVars, litVars, ctxVars>>

(***************************************************************************)
(* Strings                                                                 *)
(***************************************************************************)
\* s[from:to] with Go's 0-based, half-open indices.
Slice(s, from, to) == SubSeq(s, from + 1, to)

\* strings.HasPrefix(s, prefix)
HasPrefix(s, prefix) ==
    /\ Len(s) >= Len(prefix)
    /\ SubSeq(s, 1, Len(prefix)) = prefix

\* utf8.DecodeRuneInString(s) for non-empty s: the rune and its width.
\* An incomplete or stray byte decodes to RuneError with width 1.
DecodeRuneInString(s) ==
    IF s[1] = "L"
    THEN IF Len(s) >= 2 /\ s[2] = "C"
         THEN [r |-> "LC", w |-> 2]
         ELSE [r |-> "RuneError", w |-> 1]
    ELSE IF s[1] = "C"
         THEN [r |-> "RuneError", w |-> 1]
         ELSE [r |-> s[1], w |-> 1]

(***************************************************************************)
(* lexer.next                                                              *)
(***************************************************************************)
\* next with the end of input tested one byte early.
next_EarlyEOF(in, p, w) ==
    IF p >= Len(in) - 1
    THEN [r |-> "eof", pos |-> p, width |-> 0]
    ELSE LET d == DecodeRuneInString(Slice(in, p, Len(in)))
         IN  [r |-> d.r, pos |-> p + d.w, width |-> d.w]

\* The effect of l.next() on (pos, width) and the rune it returns.
\* l.input[l.pos:] panics when pos is negative, before width is assigned.
next(in, p, w) ==
    IF p >= Len(in)
    THEN [r |-> "eof", pos |-> p, width |-> 0]
    ELSE IF p < 0
         THEN [r |-> "panic", pos |-> p, width |-> w]
         ELSE LET d == DecodeRuneInString(Slice(in, p, Len(in)))
              IN  [r |-> d.r, pos |-> p + d.w, width |-> d.w]

\* backup stepping back one byte whatever the width of the last rune.
backup_OneByte(p, w) == p - 1

\* The effect of l.backup() on pos: l.pos -= l.width
backup(p, w) == p - w

\* The guard letting a zero-width span through.
Pending_ZeroWidth(p, s) == p >= s

\* if l.pos > l.start, the guard of both emit(tokenText) call sites
Pending(p, s) == p > s

\* The item stamped with the cursor instead of the pending start.
item_PosAtCursor(t) == [typ |-> t, pos |-> pos, val |-> Slice(input, start, pos)]

\* The item emit builds: item{t, l.start, l.input[l.start:l.pos]}
item(t) == [typ |-> t, pos |-> start, val |-> Slice(input, start, pos)]

\* No cursor call has been made yet.
NoCall == [op |-> "none", from |-> 0, before |-> 0, backups |-> 0]

\* No node has been allocated.
AstIdle ==
    /\ heap = <<>>
    /\ orig = 0
    /\ copy = 0
    /\ rendered = [orig |-> <<>>, copy |-> <<>>]
    /\ edited = "none"

\* No lookup has been made.
NoLookup == [on |-> "none", layer |-> 0, name |-> "", value |-> "", found |-> FALSE]

\* No Context has been built.
CtxIdle ==
    /\ ctx = <<>>
    /\ hosts = <<>>
    /\ looked = NoLookup
    /\ err = ""

\* newLiteral has not been called.
LitIdle ==
    /\ litArgs = [pos |-> 0, typ |-> "tokenInitial", val |-> <<>>]
    /\ litRes = [status |-> "none", node |-> [kind |-> "nil"]]

(***************************************************************************)
(* Scanner: lexer.run driving lexText, with the client pulling items       *)
(***************************************************************************)
Init ==
    /\ input \in Inputs
    /\ leftDelim \in LeftDelims
    /\ state = "nil"
    /\ pos = 0
    /\ start = 0
    /\ width = 0
    /\ lastPos = 0
    /\ items = <<>>
    /\ received = <<>>
    /\ pc = "run"
    /\ hist = NoCall
    /\ panicked = FALSE
    /\ AstIdle
    /\ LitIdle
    /\ CtxIdle

\* for l.state = lexText; ...
Run_Init ==
    /\ pc = "run"
    /\ state' = "lexText"
    /\ pc' = "loop"
    /\ UNCHANGED <<input, leftDelim, pos, start, width, lastPos, items, received, nonLexVars>>

\* ...; l.state != nil; { l.state = l.state(l) }  -- the call
Run_Call ==
    /\ pc = "loop"
    /\ state # "nil"
    /\ pc' = state
    /\ UNCHANGED <<input, leftDelim, state, pos, start, width, lastPos, items, received, nonLexVars>>

\* the loop condition fails: run returns
Run_Exit ==
    /\ pc = "loop"
    /\ state = "nil"
    /\ pc' = "done"
    /\ UNCHANGED <<input, leftDelim, state, pos, start, width, lastPos, items, received, nonLexVars>>

\* lexText, one iteration of its loop that finds the left delimiter.
LexText_Delim ==
    /\ pc = "lexText"
    /\ HasPrefix(Slice(input, pos, Len(input)), leftDelim)
    /\ IF Pending(pos, start)
       THEN /\ pc' = "emitTextDelim"
            /\ UNCHANGED state
       ELSE /\ state' = "lexText"      \* return lexText
            /\ pc' = "loop"
    /\ UNCHANGED <<input, leftDelim, pos, start, width, lastPos, items, received, nonLexVars>>

\* lexText, one iteration of its loop that consumes a rune.
LexText_Next ==
    /\ pc = "lexText"
    /\ ~HasPrefix(Slice(input, pos, Len(input)), leftDelim)
    /\ LET n == next(input, pos, width)
       IN  /\ n.r \notin {"eof", "panic"}
           /\ pos' = n.pos
           /\ width' = n.width
    /\ UNCHANGED <<input, leftDelim, state, start, lastPos, items, received, pc, nonLexVars>>

\* lexText, the iteration in which next() returns eof: break.
LexText_EOF ==
    /\ pc = "lexText"
    /\ ~HasPrefix(Slice(input, pos, Len(input)), leftDelim)
    /\ LET n == next(input, pos, width)
       IN  /\ n.r = "eof"
           /\ pos' = n.pos
           /\ width' = n.width
    /\ pc' = IF Pending(pos, start) THEN "emitTextEOF" ELSE "emitEOF"
    /\ UNCHANGED <<input, leftDelim, state, start, lastPos, items, received, nonLexVars>>

\* The token type each emit call site passes.
EmitType(p) ==
    IF p \in {"emitTextDelim", "emitTextEOF"} THEN "tokenText" ELSE "tokenEOF"

EmitSites == {"emitTextDelim", "emitTextEOF", "emitEOF"}

\* emit: l.items <- item{t, l.start, l.input[l.start:l.pos]}
\* The send blocks until the client receives the item.
Emit_Send ==
    /\ pc \in EmitSites
    /\ items = <<>>
    /\ items' = <<item(EmitType(pc))>>
    /\ pc' = CASE pc = "emitTextDelim" -> "sentTextDelim"
               [] pc = "emitTextEOF"   -> "sentTextEOF"
               [] pc = "emitEOF"       -> "sentEOF"
    /\ UNCHANGED <<input, leftDelim, state, pos, start, width, lastPos, received, nonLexVars>>

\* lexText returning itself instead of nil after tokenEOF.
AfterEmit_NoStop(p, st) ==
    CASE p = "sentTextDelim" -> [state |-> "lexText", pc |-> "loop"]
      [] p = "sentTextEOF"   -> [state |-> st, pc |-> "emitEOF"]
      [] p = "sentEOF"       -> [state |-> "lexText", pc |-> "loop"]

\* What lexText does after each emit call returns: return lexText after
\* the text before a delimiter, go on to emit(tokenEOF) after the final
\* text, return nil after tokenEOF.
AfterEmit(p, st) ==
    CASE p = "sentTextDelim" -> [state |-> "lexText", pc |-> "loop"]
      [] p = "sentTextEOF"   -> [state |-> st, pc |-> "emitEOF"]
      [] p = "sentEOF"       -> [state |-> "nil", pc |-> "loop"]

\* emit, after the send: l.start = l.pos, and what follows the call site.
Emit_Return ==
    /\ pc \in {"sentTextDelim", "sentTextEOF", "sentEOF"}
    /\ items = <<>>
    /\ start' = pos
    /\ state' = AfterEmit(pc, state).state
    /\ pc' = AfterEmit(pc, state).pc
    /\ UNCHANGED <<input, leftDelim, pos, width, lastPos, items, received, nonLexVars>>

\* nextItem: item := <-l.items; l.lastPos = item.pos; return item
NextItem ==
    /\ items # <<>>
    /\ received' = Append(received, items[1])
    /\ lastPos' = items[1].pos
    /\ items' = <<>>
    /\ UNCHANGED <<input, leftDelim, state, pos, start, width, pc, nonLexVars>>

Lexer ==
    \/ Run_Init
    \/ Run_Call
    \/ Run_Exit
    \/ LexText_Delim
    \/ LexText_Next
    \/ LexText_EOF
    \/ Emit_Send
    \/ Emit_Return

Next ==
    \/ Lexer
    \/ NextItem

Spec == Init /\ [][Next]_vars

\* The goroutine running lexer.run is scheduled as long as it can take a
\* step, and the client keeps pulling items.
FairSpec == Spec /\ WF_vars(Lexer) /\ WF_vars(NextItem)

(***************************************************************************)
(* The cursor primitives next, backup and peek, called in any order, as a  *)
(* state function may call them.                                           *)
(***************************************************************************)
\* How many times in a row backup is called without a next.
MaxBackups == 3

InitCursor ==
    /\ input \in Inputs
    /\ leftDelim = <<>>
    /\ state = "nil"
    /\ pos = 0
    /\ start = 0
    /\ width = 0
    /\ lastPos = 0
    /\ items = <<>>
    /\ received = <<>>
    /\ pc = "cursor"
    /\ hist = NoCall
    /\ panicked = FALSE
    /\ AstIdle
    /\ LitIdle
    /\ CtxIdle

\* l.next()
Cursor_Next ==
    /\ pc = "cursor"
    /\ ~panicked
    /\ LET n == next(input, pos, width)
       IN  /\ pos' = n.pos
           /\ width' = n.width
           /\ panicked' = (n.r = "panic")
    /\ hist' = [op |-> "next", from |-> pos, before |-> pos, backups |-> 0]
    /\ UNCHANGED <<input, leftDelim, state, start, lastPos, items, received, pc, nonCursorVars>>

\* l.backup()
Cursor_Backup ==
    /\ pc = "cursor"
    /\ ~panicked
    /\ hist.backups < MaxBackups
    /\ pos' = backup(pos, width)
    /\ hist' = [hist EXCEPT !.op = "backup", !.before = pos, !.backups = @ + 1]
    /\ UNCHANGED <<input, leftDelim, state, start, width, lastPos, items, received, pc, panicked, nonCursorVars>>

\* l.peek(): r := l.next(); l.backup(); return r
Cursor_Peek ==
    /\ pc = "cursor"
    /\ ~panicked
    /\ LET n == next(input, pos, width)
       IN  /\ width' = n.width
           /\ panicked' = (n.r = "panic")
           /\ pos' = IF n.r = "panic" THEN pos ELSE backup(n.pos, n.width)
           /\ hist' = [op |-> "peek", from |-> pos, before |-> pos,
                       backups |-> IF n.r = "panic" THEN 0 ELSE 1]
    /\ UNCHANGED <<input, leftDelim, state, start, lastPos, items, received, pc, nonCursorVars>>

NextCursor ==
    \/ Cursor_Next
    \/ Cursor_Backup
    \/ Cursor_Peek

SpecCursor == InitCursor /\ [][NextCursor]_vars

(***************************************************************************)
(* strconv, for the lexemes newLiteral is given                            *)
(***************************************************************************)
Digits == {"0", "1", "2", "3", "4", "5", "6", "7", "8", "9"}

DigitVal(c) ==
    CASE c = "0" -> 0 [] c = "1" -> 1 [] c = "2" -> 2 [] c = "3" -> 3
      [] c = "4" -> 4 [] c = "5" -> 5 [] c = "6" -> 6 [] c = "7" -> 7
      [] c = "8" -> 8 [] c = "9" -> 9

AllDigits(s) == \A i \in 1..Len(s) : s[i] \in Digits

RECURSIVE StripLeadingZeros(_)
StripLeadingZeros(s) ==
    IF Len(s) > 1 /\ s[1] = "0" THEN StripLeadingZeros(Tail(s)) ELSE s

RECURSIVE StripTrailingZeros(_)
StripTrailingZeros(s) ==
    IF s # <<>> /\ s[Len(s)] = "0"
    THEN StripTrailingZeros(SubSeq(s, 1, Len(s) - 1))
    ELSE s

\* a <= b for two runs of digits of the same length
RECURSIVE DigitsLeq(_, _)
DigitsLeq(a, b) ==
    IF a = <<>> THEN TRUE
    ELSE IF DigitVal(a[1]) # DigitVal(b[1]) THEN DigitVal(a[1]) < DigitVal(b[1])
    ELSE DigitsLeq(Tail(a), Tail(b))

\* a <= b for two magnitudes without leading zeros
MagLeq(a, b) ==
    \/ Len(a) < Len(b)
    \/ Len(a) = Len(b) /\ DigitsLeq(a, b)

\* 1<<63 - 1 and 1<<63, the bounds of a signed 64-bit integer
MaxInt64 == <<"9", "2", "2", "3", "3", "7", "2", "0", "3", "6", "8", "5", "4", "7", "7", "5", "8", "0", "7">>
MinInt64Mag == <<"9", "2", "2", "3", "3", "7", "2", "0", "3", "6", "8", "5", "4", "7", "7", "5", "8", "0", "8">>

HasSign(s) == s # <<>> /\ s[1] \in {"+", "-"}

Unsigned(s) == IF HasSign(s) THEN Tail(s) ELSE s

\* strconv.ParseInt(s, 10, 64): an optional sign and decimal digits (base 10
\* is given, so neither a base prefix nor an underscore is accepted), within
\* the range of int64.  The value is kept as its sign and decimal magnitude.
ParseInt(s) ==
    LET body == Unsigned(s)
        neg  == HasSign(s) /\ s[1] = "-"
        mag  == StripLeadingZeros(body)
    IN  IF body = <<>> \/ ~AllDigits(body)
        THEN [ok |-> FALSE, neg |-> FALSE, mag |-> <<"0">>]       \* ErrSyntax
        ELSE IF ~MagLeq(mag, IF neg THEN MinInt64Mag ELSE MaxInt64)
        THEN [ok |-> FALSE, neg |-> FALSE, mag |-> <<"0">>]       \* ErrRange
        ELSE [ok |-> TRUE, neg |-> neg /\ mag # <<"0">>, mag |-> mag]

\* strconv.FormatInt(v, 10)
FormatInt(v) == (IF v.neg THEN <<"-">> ELSE <<>>) \o v.mag

\* The index of the first "." of s, 0 if there is none.
DotAt(s) ==
    IF \E i \in 1..Len(s) : s[i] = "."
    THEN CHOOSE i \in 1..Len(s) : s[i] = "." /\ \A j \in 1..(i - 1) : s[j] # "."
    ELSE 0

\* strconv.ParseFloat(s, 64) on the lexemes of Lexemes, none of which has an
\* exponent, a hexadecimal prefix, an underscore or spells inf or nan: an
\* optional sign, then digits with at most one ".", at least one digit in
\* all.  The value is kept as the decimal the lexeme denotes (sign, integer
\* digits, fraction digits); rounding to the nearest double is left out.
ParseFloat(s) ==
    LET body == Unsigned(s)
        neg  == HasSign(s) /\ s[1] = "-"
        d    == DotAt(body)
        ip   == IF d = 0 THEN body ELSE SubSeq(body, 1, d - 1)
        fp   == IF d = 0 THEN <<>> ELSE SubSeq(body, d + 1, Len(body))
    IN  IF AllDigits(ip) /\ AllDigits(fp) /\ Len(ip) + Len(fp) > 0
        THEN [ok |-> TRUE, neg |-> neg,
              ip |-> StripLeadingZeros(IF ip = <<>> THEN <<"0">> ELSE ip),
              fp |-> StripTrailingZeros(fp)]
        ELSE [ok |-> FALSE, neg |-> FALSE, ip |-> <<"0">>, fp |-> <<>>]

\* fmt.Sprint of a float64 whose shortest decimal needs no exponent
FormatFloat(v) ==
    (IF v.neg THEN <<"-">> ELSE <<>>) \o v.ip
        \o (IF v.fp = <<>> THEN <<>> ELSE <<".">> \o v.fp)

(***************************************************************************)
(* AST nodes                                                               *)
(***************************************************************************)
\* A node on the heap.  kind is the Go struct, typ its NodeType field, kids
\* its child Node fields in declaration order (0 is a nil Node), els the
\* Else field of an IfBlockNode, val its scalar field (Text, Name, Value,
\* the operator item's val).
Node(kind, typ, p, kids, els, val) ==
    [kind |-> kind, typ |-> typ, pos |-> p, kids |-> kids, els |-> els, val |-> val]

NilNode == Node("nil", "nil", 0, <<>>, 0, <<>>)

LiteralTypes == {"tokenFloat", "tokenInteger", "tokenString", "tokenBool"}

\* The lexemes newLiteral is tried on.
Lexemes ==
    {<<"0">>,
     <<"7">>,
     <<"-", "7">>,
     <<"+", "5">>,
     <<"0", "0", "7">>,
     <<"1", ".", "5">>,
     <<"-", "0", ".", "5">>,
     <<"2", ".">>,
     <<"1", ".", "5", ".", "2">>,
     <<>>,
     <<"-">>,
     <<".">>,
     <<"t", "r", "u", "e">>,
     <<"f", "a", "l", "s", "e">>,
     <<"T", "r", "u", "e">>,
     <<"a", "b", "c">>,
     <<"1", "2", "a">>,
     <<"9", "2", "2", "3", "3", "7", "2", "0", "3", "6", "8", "5", "4", "7", "7", "5", "8", "0", "7">>,
     <<"9", "2", "2", "3", "3", "7", "2", "0", "3", "6", "8", "5", "4", "7", "7", "5", "8", "0", "8">>,
     <<"-", "9", "2", "2", "3", "3", "7", "2", "0", "3", "6", "8", "5", "4", "7", "7", "5", "8", "0", "8">>,
     <<"-", "9", "2", "2", "3", "3", "7", "2", "0", "3", "6", "8", "5", "4", "7", "7", "5", "8", "0", "9">>}

\* newLiteral(pos, typ, val): the node it returns, or the panic it raises
newLiteral(p, typ, val) ==
    CASE typ = "tokenFloat" ->
             LET v == ParseFloat(val)
             IN  IF ~v.ok
                 THEN [panic |-> TRUE, node |-> NilNode]
                 ELSE [panic |-> FALSE,
                       node |-> Node("FloatNode", "NodeFloat", p, <<>>, 0,
                                     [neg |-> v.neg, ip |-> v.ip, fp |-> v.fp])]
      [] typ = "tokenInteger" ->
             LET v == ParseInt(val)
             IN  IF ~v.ok
                 THEN [panic |-> TRUE, node |-> NilNode]
                 ELSE [panic |-> FALSE,
                       node |-> Node("IntegerNode", "NodeInteger", p, <<>>, 0,
                                     [neg |-> v.neg, mag |-> v.mag])]
      [] typ = "tokenString" ->
             [panic |-> FALSE, node |-> Node("StringNode", "NodeString", p, <<>>, 0, val)]
      [] typ = "tokenBool" ->
             [panic |-> FALSE,
              node |-> Node("BoolNode", "NodeBool", p, <<>>, 0,
                            val = <<"t", "r", "u", "e">>)]
      [] OTHER -> [panic |-> TRUE, node |-> NilNode]   \* unexpected literal type

InitLiteral ==
    /\ litArgs \in [pos : {0}, typ : LiteralTypes \cup {"tokenName"}, val : Lexemes]
    /\ litRes = [status |-> "none", node |-> NilNode]
    /\ input = <<>>
    /\ leftDelim = <<>>
    /\ state = "nil"
    /\ pos = 0
    /\ start = 0
    /\ width = 0
    /\ lastPos = 0
    /\ items = <<>>
    /\ received = <<>>
    /\ pc = "literal"
    /\ hist = NoCall
    /\ panicked = FALSE
    /\ AstIdle
    /\ CtxIdle

\* the parser calls newLiteral on a literal token
NewLiteral ==
    /\ litRes.status = "none"
    /\ LET r == newLiteral(litArgs.pos, litArgs.typ, litArgs.val)
       IN  litRes' = [status |-> IF r.panic THEN "panic" ELSE "node", node |-> r.node]
    /\ UNCHANGED <<lexVars, apiVars, astVars, ctxVars, litArgs>>

NextLiteral == NewLiteral

SpecLiteral == InitLiteral /\ [][NextLiteral]_vars

(***************************************************************************)
(* Node.String                                                             *)
(***************************************************************************)
\* A rendering is the sequence of the pieces written, in order.
RECURSIVE String(_, _)
RECURSIVE FprintAll(_, _)

\* fmt.Fprint(b, n) for a Node n: "<nil>" for a nil interface, n.String()
\* otherwise; here for each Node of a slice in turn.
FprintAll(h, ids) ==
    IF ids = <<>> THEN <<>>
    ELSE (IF ids[1] = 0 THEN <<"<nil>">> ELSE String(h, ids[1]))
             \o FprintAll(h, Tail(ids))

\* MapExpr.String: the elements separated by ", "
RECURSIVE JoinElems(_, _)
JoinElems(h, ids) ==
    IF ids = <<>> THEN <<>>
    ELSE String(h, ids[1])
             \o (IF Len(ids) > 1 THEN <<", ">> ELSE <<>>)
             \o JoinElems(h, Tail(ids))

\* n.String() of the node at index id
String(h, id) ==
    LET n == h[id]
        K(i) == String(h, n.kids[i])
    IN  CASE n.kind = "ListNode"     -> FprintAll(h, n.kids)
          [] n.kind = "TextNode"     -> <<n.val>>
          [] n.kind = "VarNode"      -> <<"{{ ">> \o K(1) \o <<" }}">>
          [] n.kind = "LookupNode"   -> <<n.val>>
          [] n.kind = "StringNode"   -> <<"\"">> \o n.val \o <<"\"">>
          [] n.kind = "BoolNode"     -> IF n.val THEN <<"true">> ELSE <<"false">>
          [] n.kind = "IntegerNode"  -> FormatInt(n.val)
          [] n.kind = "FloatNode"    -> FormatFloat(n.val)
          [] n.kind = "UnaryNode"    -> <<n.val>> \o K(1)
          [] n.kind \in {"AddExpr", "MulExpr"}
                                     -> K(1) \o <<" ", n.val, " ">> \o K(2)
          [] n.kind = "MapExpr"      -> <<"{">> \o JoinElems(h, n.kids) \o <<"}">>
          [] n.kind = "MapElem"      -> K(1) \o <<": ">> \o K(2)
          [] n.kind = "IndexExpr"    -> K(1) \o <<"[">> \o K(2) \o <<"]">>
          [] n.kind = "SetNode"      -> <<"{% set ">> \o K(1) \o <<" = ">> \o K(2) \o <<" %}">>
          [] n.kind = "ConditionalNode" ->
                 (CASE n.typ = "NodeIf"     -> <<"{% if ">> \o K(1) \o <<" %}">>
                    [] n.typ = "NodeElseIf" -> <<"{% elif ">> \o K(1) \o <<" %}">>
                    [] OTHER -> <<>>)
                 \o K(2)
          [] n.kind = "IfBlockNode"  ->
                 FprintAll(h, n.kids)
                 \o (IF n.els # 0 THEN <<"{% else %}">> \o String(h, n.els) ELSE <<>>)
                 \o <<"{% endif %}">>
          [] n.kind = "ForNode"      ->
                 <<"{% for ">> \o K(1) \o <<" in ">> \o K(2) \o <<" %}">> \o K(3)
                 \o <<"{% endfor %}">>
          [] n.kind = "BlockNode"    ->
                 <<"{% block ", n.val, " %}">> \o K(1) \o <<"{% endblock %}">>

(***************************************************************************)
(* Node.Copy                                                               *)
(***************************************************************************)
\* Allocation: the new node gets the next index of the heap.
Alloc(h, n) == [h |-> Append(h, n), id |-> Len(h) + 1]

\* n nil Nodes: make([]Node, n)
Nils(n) == [i \in 1..n |-> 0]

RECURSIVE Copy(_, _)
RECURSIVE CopyEach(_, _)

\* elem.Copy() for each element of a slice, appended in order
CopyEach(h, ids) ==
    IF ids = <<>> THEN [h |-> h, ids |-> <<>>]
    ELSE LET c    == Copy(h, ids[1])
             rest == CopyEach(c.h, Tail(ids))
         IN  [h |-> rest.h, ids |-> <<c.id>> \o rest.ids]

\* n.Copy() of the node at index id: the heap after the call and the index
\* of the node returned.
Copy(h, id) ==
    LET n == h[id]
    IN  CASE n.kind \in {"ListNode", "MapExpr", "SetNode", "ConditionalNode",
                         "ForNode", "BlockNode"} ->
                 \* a new node holding a Copy of each child
                 LET c == CopyEach(h, n.kids)
                 IN  Alloc(c.h, [n EXCEPT !.kids = c.ids])
          [] n.kind \in {"TextNode", "LookupNode", "StringNode", "BoolNode",
                         "IntegerNode", "FloatNode"} ->
                 Alloc(h, n)
          [] n.kind \in {"VarNode", "UnaryNode"} ->
                 \* &VarNode{v.NodeType, v.Pos, v.Node}: the child itself
                 Alloc(h, n)
          [] n.kind \in {"AddExpr", "MulExpr", "MapElem", "IndexExpr"} ->
                 \* newAddExpr(a.lhs, a.rhs, a.operator): the children
                 \* themselves, the position taken from the first
                 Alloc(h, [n EXCEPT !.pos = h[n.kids[1]].pos])
          [] n.kind = "IfBlockNode" ->
                 \* make([]Node, len(i.Conditionals)), then append each Copy
                 LET c == CopyEach(h, n.kids)
                     e == IF n.els # 0 THEN Copy(c.h, n.els) ELSE [h |-> c.h, id |-> 0]
                 IN  Alloc(e.h, [n EXCEPT !.kids = Nils(Len(n.kids)) \o c.ids,
                                          !.els = e.id])

(***************************************************************************)
(* Building trees, copying one, editing a tree                             *)
(***************************************************************************)
\* How many nodes the parser allocates before Copy is called.
MaxNodes == 4

\* How many elements a ListNode, MapExpr or IfBlockNode is built with.
MaxElems == 2

Ids(h) == 1..Len(h)

\* The Node fields of the node at index id that are not nil.
Children(h, id) ==
    ({h[id].kids[i] : i \in 1..Len(h[id].kids)} \cup {h[id].els}) \ {0}

\* The nodes no node holds: every node has exactly one owner.
Free(h) == {i \in Ids(h) : \A j \in Ids(h) : i \notin Children(h, j)}

\* The sequences of up to n distinct free nodes.
FreeSeqs(h, n) ==
    UNION {{q \in [1..k -> Free(h)] : \A i, j \in 1..k : i # j => q[i] # q[j]}
               : k \in 0..n}

\* The nodes reachable from the node at index id, itself included.
RECURSIVE Reach(_, _)
RECURSIVE ReachAll(_, _)
ReachAll(h, ids) ==
    IF ids = {} THEN {}
    ELSE LET i == CHOOSE x \in ids : TRUE
         IN  Reach(h, i) \cup ReachAll(h, ids \ {i})
Reach(h, id) == {id} \cup ReachAll(h, Children(h, id))

InitAST ==
    /\ AstIdle
    /\ LitIdle
    /\ CtxIdle
    /\ input = <<>>
    /\ leftDelim = <<>>
    /\ state = "nil"
    /\ pos = 0
    /\ start = 0
    /\ width = 0
    /\ lastPos = 0
    /\ items = <<>>
    /\ received = <<>>
    /\ pc = "parse"
    /\ hist = NoCall
    /\ panicked = FALSE

CanBuild == copy = 0 /\ Len(heap) < MaxNodes

\* The node can stand where an expression or a body is expected.
Plain(h, i) == h[i].kind \notin {"MapElem", "ConditionalNode"}

\* newText, newLookup
New_Leaf ==
    /\ CanBuild
    /\ \E n \in {Node("TextNode", "NodeText", Len(heap), <<>>, 0, "x"),
                 Node("LookupNode", "NodeLookup", Len(heap), <<>>, 0, "a")} :
           heap' = Append(heap, n)
    /\ UNCHANGED <<lexVars, apiVars, litVars, ctxVars, orig, copy, rendered, edited>>

\* newLiteral on a well-formed literal token
New_Literal ==
    /\ CanBuild
    /\ \E a \in {<<"tokenFloat", <<"1", ".", "5">>>>, <<"tokenInteger", <<"-", "7">>>>,
                 <<"tokenString", <<"a", "b", "c">>>>, <<"tokenBool", <<"t", "r", "u", "e">>>>} :
           LET r == newLiteral(Len(heap), a[1], a[2])
           IN  /\ ~r.panic
               /\ heap' = Append(heap, r.node)
    /\ UNCHANGED <<lexVars, apiVars, litVars, ctxVars, orig, copy, rendered, edited>>

\* newVar, newUnaryNode, BlockNode: one child
New_Unary ==
    /\ CanBuild
    /\ \E c \in Free(heap) :
           /\ Plain(heap, c)
           /\ \E n \in {Node("VarNode", "NodeVar", Len(heap), <<c>>, 0, <<>>),
                        Node("UnaryNode", "NodeUnary", heap[c].pos, <<c>>, 0, "-"),
                        Node("BlockNode", "NodeList", Len(heap), <<c>>, 0, "b")} :
                  heap' = Append(heap, n)
    /\ UNCHANGED <<lexVars, apiVars, litVars, ctxVars, orig, copy, rendered, edited>>

\* newAddExpr, newMulExpr, newMapElem, newIndexExpr, newSet, newIfCond,
\* newElifCond: two children
New_Binary ==
    /\ CanBuild
    /\ \E l, r \in Free(heap) :
           /\ l # r
           /\ Plain(heap, l)
           /\ Plain(heap, r)
           /\ \E n \in {Node("AddExpr", "NodeAdd", heap[l].pos, <<l, r>>, 0, "+"),
                        Node("MulExpr", "NodeMul", heap[l].pos, <<l, r>>, 0, "*"),
                        Node("MapElem", "NodeMapElem", heap[l].pos, <<l, r>>, 0, <<>>),
                        Node("IndexExpr", "NodeIndexExpr", heap[l].pos, <<l, r>>, 0, <<>>),
                        Node("SetNode", "NodeSet", Len(heap), <<l, r>>, 0, <<>>),
                        Node("ConditionalNode", "NodeIf", Len(heap), <<l, r>>, 0, <<>>),
                        Node("ConditionalNode", "NodeElseIf", Len(heap), <<l, r>>, 0, <<>>)} :
                  heap' = Append(heap, n)
    /\ UNCHANGED <<lexVars, apiVars, litVars, ctxVars, orig, copy, rendered, edited>>

\* newFor: loop variable, iterable, body
New_For ==
    /\ CanBuild
    /\ \E q \in FreeSeqs(heap, 3) :
           /\ Len(q) = 3
           /\ \A i \in 1..3 : Plain(heap, q[i])
           /\ heap' = Append(heap, Node("ForNode", "NodeFor", Len(heap), q, 0, <<>>))
    /\ UNCHANGED <<lexVars, apiVars, litVars, ctxVars, orig, copy, rendered, edited>>

\* newList and append, newMapExpr and append
New_List ==
    /\ CanBuild
    /\ \E q \in FreeSeqs(heap, MaxElems) :
           \/ /\ \A i \in 1..Len(q) : Plain(heap, q[i])
              /\ heap' = Append(heap, Node("ListNode", "NodeList", Len(heap), q, 0, <<>>))
           \/ /\ \A i \in 1..Len(q) : heap[q[i]].kind = "MapElem"
              /\ heap' = Append(heap, Node("MapExpr", "NodeMapExpr", Len(heap), q, 0, <<>>))
    /\ UNCHANGED <<lexVars, apiVars, litVars, ctxVars, orig, copy, rendered, edited>>

\* newIf: an if clause, elif clauses, an optional else body
New_IfBlock ==
    /\ CanBuild
    /\ \E q \in FreeSeqs(heap, MaxElems) :
           /\ Len(q) >= 1
           /\ heap[q[1]].kind = "ConditionalNode" /\ heap[q[1]].typ = "NodeIf"
           /\ \A i \in 2..Len(q) :
                  heap[q[i]].kind = "ConditionalNode" /\ heap[q[i]].typ = "NodeElseIf"
           /\ \E e \in {0} \cup {i \in Free(heap) : Plain(heap, i)} :
                  /\ \A i \in 1..Len(q) : q[i] # e
                  /\ heap' = Append(heap, Node("IfBlockNode", "NodeIf", Len(heap), q, e, <<>>))
    /\ UNCHANGED <<lexVars, apiVars, litVars, ctxVars, orig, copy, rendered, edited>>

\* n.Copy() on a node of the tree
Call_Copy ==
    /\ copy = 0
    /\ \E n \in Ids(heap) :
           LET c == Copy(heap, n)
           IN  /\ heap' = c.h
               /\ orig' = n
               /\ copy' = c.id
               /\ rendered' = [orig |-> String(c.h, n), copy |-> String(c.h, c.id)]
    /\ UNCHANGED <<lexVars, apiVars, litVars, ctxVars, edited>>

\* The caller edits a node of one of the two trees: a new Text or Name.
Edit ==
    /\ copy # 0
    /\ edited = "none"
    /\ \E side \in {"orig", "copy"} :
           \E n \in Reach(heap, IF side = "orig" THEN orig ELSE copy) :
               /\ heap[n].kind \in {"TextNode", "LookupNode"}
               /\ heap' = [heap EXCEPT ![n].val = "z"]
               /\ edited' = side
    /\ UNCHANGED <<lexVars, apiVars, litVars, ctxVars, orig, copy, rendered>>

NextAST ==
    \/ New_Leaf
    \/ New_Literal
    \/ New_Unary
    \/ New_Binary
    \/ New_For
    \/ New_List
    \/ New_IfBlock
    \/ Call_Copy
    \/ Edit

SpecAST == InitAST /\ [][NextAST]_vars

(***************************************************************************)
(* Context and contextStack                                                *)
(***************************************************************************)
\* How many Contexts are pushed on a contextStack.
MaxLayers == 2

\* Field names of the record-like host values, keys of the map-like ones,
\* the values they hold, and the names looked up.
FieldNames == <<"One", "Foo">>
MapKeys == {"One", "one"}
HostValues == {"1", "2"}
LookupNames == {"One", "one", "Foo", "Bar"}

\* A host value: a struct (its fields in declaration order), a pointer to a
\* struct, a string-keyed map, or a value of another shape.
Host(shape, fields, entries) == [shape |-> shape, fields |-> fields, entries |-> entries]

Field(n, v) == [name |-> n, value |-> v]

\* The field lists: any subset of FieldNames, in declaration order.
FieldLists ==
    {<<>>}
    \cup {<<Field(FieldNames[i], v)>> : i \in 1..Len(FieldNames), v \in HostValues}
    \cup {<<Field(FieldNames[1], v), Field(FieldNames[2], w)>> : v, w \in HostValues}

MapEntries == UNION {[K -> HostValues] : K \in SUBSET MapKeys}

Hosts ==
    {Host("struct", f, <<>>) : f \in FieldLists}
    \cup {Host("ptr", f, <<>>) : f \in FieldLists}
    \cup {Host("map", <<>>, e) : e \in MapEntries}
    \cup {Host("int", <<>>, <<>>), Host("slice", <<>>, <<>>)}

\* NewContext(hostValue): a Context over a struct, over the struct a pointer
\* refers to, or over a string-keyed map; an error for any other shape.
NewContext(h) ==
    CASE h.shape \in {"struct", "ptr"} ->
             [err |-> "", c |-> [kind |-> "struct", fields |-> h.fields, entries |-> <<>>]]
      [] h.shape = "map" ->
             [err |-> "", c |-> [kind |-> "map", fields |-> <<>>, entries |-> h.entries]]
      [] OTHER ->
             [err |-> "UnsupportedContextType",
              c |-> [kind |-> "none", fields |-> <<>>, entries |-> <<>>]]

NotFound == [value |-> "", found |-> FALSE]

\* The field search starting at the second field.
FieldByName_SkipFirst(fields, name) ==
    IF \E i \in 2..Len(fields) : fields[i].name = name
    THEN [value |-> fields[CHOOSE i \in 2..Len(fields) : fields[i].name = name].value,
          found |-> TRUE]
    ELSE NotFound

\* The field whose declared name equals name, compared case-sensitively.
RECURSIVE FieldByName(_, _)
FieldByName(fields, name) ==
    IF fields = <<>> THEN NotFound
    ELSE IF fields[1].name = name THEN [value |-> fields[1].value, found |-> TRUE]
    ELSE FieldByName(Tail(fields), name)

\* Context.lookup(name)
Context_lookup(c, name) ==
    CASE c.kind = "struct" -> FieldByName(c.fields, name)
      [] c.kind = "map" ->
             IF name \in DOMAIN c.entries
             THEN [value |-> c.entries[name], found |-> TRUE]
             ELSE NotFound

\* The scan running from the first pushed Context to the last.
RECURSIVE contextStack_lookup_FirstPushed(_, _)
contextStack_lookup_FirstPushed(cs, name) ==
    IF cs = <<>> THEN NotFound
    ELSE LET r == Context_lookup(cs[1], name)
         IN  IF r.found THEN r ELSE contextStack_lookup_FirstPushed(Tail(cs), name)

\* contextStack.lookup(name): the scan runs from the most recently pushed
\* Context back to the first pushed and returns the first match.
RECURSIVE contextStack_lookup(_, _)
contextStack_lookup(cs, name) ==
    IF cs = <<>> THEN NotFound
    ELSE LET r == Context_lookup(cs[Len(cs)], name)
         IN  IF r.found THEN r
             ELSE contextStack_lookup(SubSeq(cs, 1, Len(cs) - 1), name)

InitContext ==
    /\ CtxIdle
    /\ AstIdle
    /\ LitIdle
    /\ input = <<>>
    /\ leftDelim = <<>>
    /\ state = "nil"
    /\ pos = 0
    /\ start = 0
    /\ width = 0
    /\ lastPos = 0
    /\ items = <<>>
    /\ received = <<>>
    /\ pc = "context"
    /\ hist = NoCall
    /\ panicked = FALSE

\* c, err := NewContext(x); ctx.push(c) -- the push is skipped on an error
Push ==
    /\ Len(ctx) < MaxLayers
    /\ \E h \in Hosts :
           LET r == NewContext(h)
           IN  /\ err' = r.err
               /\ IF r.err = ""
                  THEN /\ ctx' = Append(ctx, r.c)
                       /\ hosts' = Append(hosts, h)
                  ELSE UNCHANGED <<ctx, hosts>>
    /\ looked' = NoLookup
    /\ UNCHANGED <<lexVars, apiVars, astVars, litVars>>

\* c.lookup(key) on one of the Contexts built
Lookup_Context ==
    /\ \E i \in 1..Len(ctx), name \in LookupNames :
           LET r == Context_lookup(ctx[i], name)
           IN  looked' = [on |-> "context", layer |-> i, name |-> name,
                          value |-> r.value, found |-> r.found]
    /\ UNCHANGED <<lexVars, apiVars, astVars, litVars, ctx, hosts, err>>

\* ctx.lookup(key) on the stack
Lookup_Stack ==
    /\ \E name \in LookupNames :
           LET r == contextStack_lookup(ctx, name)
           IN  looked' = [on |-> "stack", layer |-> 0, name |-> name,
                          value |-> r.value, found |-> r.found]
    /\ UNCHANGED <<lexVars, apiVars, astVars, litVars, ctx, hosts, err>>

NextContext ==
    \/ Push
    \/ Lookup_Context
    \/ Lookup_Stack

SpecContext == InitContext /\ [][NextContext]_vars

(***************************************************************************)
(* Properties of the scanner                                               *)
(***************************************************************************)
\* Every item passed to the channel so far, received or still in flight.
Emitted == received \o items

Terminal == {"tokenEOF", "tokenError"}

\* Byte offsets at which the left delimiter occurs in the input.
DelimAt(p) == HasPrefix(Slice(input, p, Len(input)), leftDelim)

\* The input holds no occurrence of the left delimiter.
NoDelim == \A p \in 0..Len(input) : ~DelimAt(p)

\* The first occurrence of the left delimiter at or after byte offset from,
\* the end of the input if there is none.
FirstDelim(from) ==
    IF \E p \in from..Len(input) : DelimAt(p)
    THEN CHOOSE p \in from..Len(input) :
             DelimAt(p) /\ \A q \in from..(p - 1) : ~DelimAt(q)
    ELSE Len(input)

\* C1: every scan ends, and the item sequence it produced ends with an EOF
\* or an Error item, whatever the input and the configured (non-empty) left
\* delimiter, also when the input holds an occurrence of it.
C1_ScanTerminates ==
    leftDelim # <<>> =>
        <>(/\ pc = "done"
           /\ received # <<>>
           /\ received[Len(received)].typ \in Terminal)

\* C6: an item of type EOF or Error is the last item of the sequence (none
\* follows it, so there is at most one), and once its emit has returned the
\* state machine has stopped: the state is nil and run leaves its loop.
C6_TerminalIsLast ==
    /\ \A i \in 1..Len(Emitted) :
           Emitted[i].typ \in Terminal => i = Len(Emitted)
    /\ (\E i \in 1..Len(Emitted) : Emitted[i].typ \in Terminal)
           => \/ pc \in {"sentEOF"}
              \/ pc \in {"loop", "done"} /\ state = "nil"

C6_Witness ==
    /\ pc = "done"
    /\ Len(received) = 2
    /\ received[1].typ = "tokenText"
    /\ received[2].typ = "tokenEOF"

\* C8: every Text item is non-empty and is the whole span from the pending
\* start to the next occurrence of the left delimiter (the end of the input
\* if there is none); no two Text items cover the same span.
C8_TextSpan ==
    /\ \A i \in 1..Len(Emitted) :
           Emitted[i].typ = "tokenText" =>
               /\ Emitted[i].val # <<>>
               /\ Emitted[i].val =
                      Slice(input, Emitted[i].pos, FirstDelim(Emitted[i].pos))
    /\ \A i, j \in 1..Len(Emitted) :
           (i < j /\ Emitted[i].typ = "tokenText" /\ Emitted[j].typ = "tokenText")
               => Emitted[i].pos < Emitted[j].pos

\* A Text item ending at a delimiter has been received, and lexText is back
\* at that delimiter with nothing pending.
C8_Witness ==
    /\ pc = "lexText"
    /\ Len(received) = 1
    /\ received[1].typ = "tokenText"
    /\ leftDelim # <<>>
    /\ DelimAt(pos)
    /\ start = pos
    /\ pos < Len(input)

\* What C9 expects of an input without left delimiter.
ExpectedNoDelim ==
    IF input = <<>>
    THEN <<[typ |-> "tokenEOF", pos |-> 0, val |-> <<>>]>>
    ELSE <<[typ |-> "tokenText", pos |-> 0, val |-> input],
           [typ |-> "tokenEOF", pos |-> Len(input), val |-> <<>>]>>

\* C9: for an input without left delimiter the items are exactly
\* [Text(input), EOF] when the input is non-empty and [EOF] when it is
\* empty, the EOF item at the end of the input with empty text: nothing else
\* is ever emitted and all of it has been received when run returns.
C9_TextThenEOF ==
    NoDelim =>
        /\ Len(Emitted) <= Len(ExpectedNoDelim)
        /\ Emitted = SubSeq(ExpectedNoDelim, 1, Len(Emitted))
        /\ pc = "done" => received = ExpectedNoDelim

C9_Witness ==
    /\ NoDelim
    /\ pc = "done"
    /\ Len(input) = MaxLen
    /\ received = ExpectedNoDelim

(***************************************************************************)
(* Properties of the cursor primitives                                     *)
(***************************************************************************)
\* backup after next restores pos (a no-op after eof); peek leaves pos alone.
OneBackupRestores ==
    /\ (hist.op = "backup" /\ hist.backups = 1) => pos = hist.from
    /\ hist.op = "peek" => pos = hist.before

\* C10 as claimed: one backup per next restores pos, peek leaves pos
\* unchanged, and a second backup without an intervening next fails fast
\* instead of moving the cursor before the position that preceded the last
\* next.
C10_SecondBackupGuarded ==
    /\ OneBackupRestores
    /\ hist.backups >= 2 => (panicked \/ pos >= hist.from)

\* C10 amended: one backup per next restores pos, peek leaves pos
\* unchanged, and backup is not guarded: it never fails and always subtracts
\* width again, so a second backup after a next that decoded a rune moves
\* the cursor before the position that preceded that next.
C10_SecondBackupMoves ==
    /\ OneBackupRestores
    /\ hist.op = "backup" => (~panicked /\ pos = hist.before - width)
    /\ (hist.op = "backup" /\ hist.backups >= 2 /\ width > 0) => pos < hist.from

C10_Witness ==
    /\ hist.op = "backup"
    /\ hist.backups = 2
    /\ width = 2
    /\ pos < hist.from

(***************************************************************************)
(* Properties of newLiteral                                                *)
(***************************************************************************)
\* The lexeme can be parsed as a literal of the kind the token declares.
ParsesAs(typ, val) ==
    CASE typ = "tokenFloat"   -> ParseFloat(val).ok
      [] typ = "tokenInteger" -> ParseInt(val).ok
      [] typ = "tokenString"  -> TRUE
      [] typ = "tokenBool"    -> val \in {<<"t", "r", "u", "e">>, <<"f", "a", "l", "s", "e">>}

\* C7: newLiteral on a float, integer, string or boolean token whose lexeme
\* cannot be parsed as that kind ends in a panic, never in a node.
C7_BadLexemeIsLoud ==
    (/\ litRes.status # "none"
     /\ litArgs.typ \in LiteralTypes
     /\ ~ParsesAs(litArgs.typ, litArgs.val))
        => litRes.status = "panic"

(***************************************************************************)
(* Properties of Copy                                                      *)
(***************************************************************************)
\* C2: the copy renders as the original does: n.Copy().String() = n.String()
C2_CopyRendersSame ==
    (copy # 0 /\ edited = "none") => String(heap, copy) = String(heap, orig)

\* C3: the copy shares no child with the original, so an edit in the
\* copy's tree leaves the rendering of the original as it was, and an edit
\* in the original's tree leaves the rendering of the copy as it was.
C3_CopySharesNothing ==
    copy # 0 =>
        /\ Reach(heap, copy) \cap Reach(heap, orig) = {}
        /\ edited = "copy" => String(heap, orig) = rendered.orig
        /\ edited = "orig" => String(heap, copy) = rendered.copy

(***************************************************************************)
(* Properties of Context and contextStack                                  *)
(***************************************************************************)
\* The host value has a field or a key equal to name.
HostHas(h, name) ==
    IF h.shape = "map"
    THEN name \in DOMAIN h.entries
    ELSE \E i \in 1..Len(h.fields) : h.fields[i].name = name

\* The value of that field or entry.
HostValue(h, name) ==
    IF h.shape = "map"
    THEN h.entries[name]
    ELSE h.fields[CHOOSE i \in 1..Len(h.fields) : h.fields[i].name = name].value

\* The layers whose host value has the name.
LayersWith(name) == {i \in 1..Len(hosts) : HostHas(hosts[i], name)}

Max(S) == CHOOSE x \in S : \A y \in S : y <= x

\* C4: a stack lookup finds the name exactly when some pushed layer has it,
\* and returns the value of the most recently pushed layer that has it.
C4_StackLookupShadows ==
    looked.on = "stack" =>
        /\ looked.found = (LayersWith(looked.name) # {})
        /\ looked.found =>
               looked.value = HostValue(hosts[Max(LayersWith(looked.name))], looked.name)

\* Two layers hold the name with different values, one a struct and one a
\* map, and the stack has been looked up for it.
C4_Witness ==
    /\ looked.on = "stack"
    /\ looked.found
    /\ Len(hosts) = 2
    /\ LayersWith(looked.name) = {1, 2}
    /\ hosts[1].shape # hosts[2].shape
    /\ HostValue(hosts[1], looked.name) # HostValue(hosts[2], looked.name)

\* C5: a lookup on one Context finds the name exactly when the host value
\* has a field or key equal to it, returns that field's or entry's value,
\* and gives for a pointer to a struct what it gives for the struct.
C5_ContextLookup ==
    looked.on = "context" =>
        LET h == hosts[looked.layer]
        IN  /\ looked.found = HostHas(h, looked.name)
            /\ looked.found => looked.value = HostValue(h, looked.name)
            /\ h.shape = "ptr" =>
                   LET v == Context_lookup(NewContext(Host("struct", h.fields, <<>>)).c,
                                           looked.name)
                   IN  looked.found = v.found /\ looked.value = v.value

\* A field of a struct reached through a pointer has been looked up, the
\* second field of two.
C5_Witness ==
    /\ looked.on = "context"
    /\ looked.found
    /\ hosts[looked.layer].shape = "ptr"
    /\ Len(hosts[looked.layer].fields) = 2
    /\ hosts[looked.layer].fields[2].name = looked.name

(***************************************************************************)
(* Positions of the scanner                                                *)
(***************************************************************************)
\* The texts of the items, one after the other.
RECURSIVE ConcatVals(_)
ConcatVals(its) ==
    IF its = <<>> THEN <<>> ELSE its[1].val \o ConcatVals(Tail(its))

\* An emit has sent its item and has not yet set start to pos.
InEmit == pc \in {"sentTextDelim", "sentTextEOF", "sentEOF"}

\* C11: 0 <= start <= pos <= len(input) in every state; every item emitted
\* has the position start and the text input[start:pos) of the moment it
\* was emitted; the items tile the input without gap or overlap, the first
\* at offset 0, each next one where the text of the one before ends, the
\* pending start where the last one ends; and once EOF is emitted the texts
\* of the items, concatenated, are the input.
C11_ItemsTileInput ==
    /\ 0 <= start /\ start <= pos /\ pos <= Len(input)
    /\ \A i \in 1..Len(Emitted) :
           /\ Emitted[i].pos = (IF i = 1 THEN 0
                                ELSE Emitted[i - 1].pos + Len(Emitted[i - 1].val))
           /\ Emitted[i].val =
                  Slice(input, Emitted[i].pos, Emitted[i].pos + Len(Emitted[i].val))
    /\ InEmit =>
           /\ Emitted # <<>>
           /\ Emitted[Len(Emitted)].pos = start
           /\ Emitted[Len(Emitted)].val = Slice(input, start, pos)
    /\ ~InEmit => start = Len(ConcatVals(Emitted))
    /\ (\E i \in 1..Len(Emitted) : Emitted[i].typ = "tokenEOF")
           => ConcatVals(Emitted) = input

\* A Text item holding a two-byte character and the EOF item after it have
\* been received.
C11_Witness ==
    /\ pc = "done"
    /\ Len(received) = 2
    /\ \E i \in 1..Len(received[1].val) - 1 :
           received[1].val[i] = "L" /\ received[1].val[i + 1] = "C"
    /\ received[2].pos = Len(received[1].val)
    /\ received[2].pos = Len(input)

====
